---------------------------- MODULE Spec2Model ----------------------------
(***************************************************************************)
(* Model of the matching engine of src/src/pairingAlgorithm.js:            *)
(* buildConnectionGraph, detectCommunities, the pair scorers,              *)
(* buildCostMatrix, hungarianMatching (branch-and-bound backtracking and   *)
(* greedyWithLookahead) and generateOptimalPairs.                          *)
(*                                                                         *)
(* Identities (e-mail strings) are modelled as positive naturals; 0 is the *)
(* empty / missing cell.  JavaScript arrays are 0-based, the sequences     *)
(* here are 1-based: row 0 of a table is element 1 of the sequence.        *)
(*                                                                         *)
(* Costs are the source's costs multiplied by WeightDenominator (5), so    *)
(* that 0.6*d + 0.4*n becomes the integer 3*d + 2*n; the penalty and the   *)
(* look-ahead surcharge are scaled alike.  Every comparison the source     *)
(* makes between costs is between such values, and scaling by a positive   *)
(* number preserves all of them.                                           *)
(***************************************************************************)
EXTENDS Integers, Sequences, FiniteSets, TLC

VARIABLES
  table1Data,   \* the roster table handed to generateOptimalPairs
  table2Data,   \* the history table handed to generateOptimalPairs
  pc,           \* position inside generateOptimalPairs
  graph,        \* the graphology graph: node order, node attributes, edges
  employees,    \* the participant list (graph.nodes(), possibly expanded)
  twiceUser,    \* the duplicated participant, 0 when none (null)
  communities,  \* Map identity -> community id
  costMatrix,   \* the cost matrix, indexed 1..n
  pairs         \* the returned pair list

vars == <<table1Data, table2Data, pc, graph, employees, twiceUser,
          communities, costMatrix, pairs>>

--------------------------------------------------------------------------
(* Program constants (ALGORITHM_CONFIG and inline literals)                *)

WeightDiversity == 3
WeightNetwork == 2
WeightDenominator == 5
CROSS_COMMUNITY_BONUS == 50
BRIDGE_BUILDING_BONUS == 30
HARD_CONSTRAINT_PENALTY == 10000
BaseDiversity == 10
BridgeDegreeGap == 2
ExactMaxSize == 12
MinEmployees == 2

Penalty == HARD_CONSTRAINT_PENALTY * WeightDenominator
\* PENALTY * 0.5 of greedyWithLookahead, scaled
Surcharge == Penalty \div 2

--------------------------------------------------------------------------
(* Bounds of the explored inputs                                           *)

MaxPeople == 4      \* roster rows (below the header) of the small rosters
MaxHistory == 2     \* history rows of the enumerated small histories
MaxRounds == 4      \* rounds run one after the other on a growing history
MaxRuns == 2        \* runs of the labelling that append rows

--------------------------------------------------------------------------
(* Cells of the tables                                                     *)

\* values of the "active" cell: boolean true/false, the number 1 or 0,
\* and texts
ActiveCells == {"b:true", "b:false", "n:1", "n:0", "s:true", "s:TRUE",
                "s:True", "s:false", "s:"}

\* isActive === true || isActive === 'true' || isActive === 1 || isActive === 'TRUE'
IsActive(cell) == cell \in {"b:true", "s:true", "n:1", "s:TRUE"}

\* String(twiceFlag).toLowerCase().trim() for the texts used as twice cell
LowerTrim(cell) ==
  CASE cell = "twice" -> "twice"
    [] cell = " Twice " -> "twice"
    [] cell = "TWICE" -> "twice"
    [] cell = "twice a week" -> "twice a week"
    [] cell = "no" -> "no"
    [] OTHER -> cell

\* twiceFlag && String(twiceFlag).toLowerCase().trim() === 'twice'
\* ("" is falsy; the attribute is later compared with === true)
CanBeTwice(cell) == cell # "" /\ LowerTrim(cell) = "twice"

\* the dates of the rows appended after the rounds 1 to 9
RoundDates == <<"2024-01-15", "2024-02-15", "2024-03-15", "2024-04-15",
                "2024-05-15", "2024-06-15", "2024-07-15", "2024-08-15",
                "2024-09-15">>

\* parseDate: an ISO text yyyy-mm-dd gives a date, anything else null
IsoDates == {"2024-01-01", "2024-1-2"} \cup {RoundDates[r] : r \in DOMAIN RoundDates}
parseDate(dateValue) ==
  IF dateValue \in IsoDates THEN dateValue ELSE "null"

RosterRow(e, a, t) == [email |-> e, active |-> a, twice |-> t]
\* a history row with its text cell (column 3), a sequence of characters
LabelledRow(a, b, d, t) == [email1 |-> a, email2 |-> b, date |-> d, text |-> t]
\* a history row whose text cell is empty
HistoryRow(a, b, d) == LabelledRow(a, b, d, <<>>)
RosterHeader == RosterRow(999, "s:active", "twice")
\* a roster row that is null or an empty array: !row || !row[0] skips it
NullRosterRow == RosterRow(0, "undefined", "undefined")
HistoryHeader == HistoryRow(998, 997, "date")

--------------------------------------------------------------------------
(* The graph (graphology, undirected, self-loops allowed, no multi-edges)  *)
(* nodes:  the node keys in insertion order (graph.nodes())                *)
(* attrs:  node key -> [canBeTwice, meetingCount]                          *)
(* edges:  set of endpoints ({a,b}, or {a} for a self-loop) ->             *)
(*         [count, meetings]                                               *)
(* threw:  an operation of the graph raised (addNode of an existing key)   *)

EmptyGraph == [nodes |-> <<>>, attrs |-> <<>>, edges |-> <<>>, threw |-> FALSE]

Range(s) == {s[i] : i \in DOMAIN s}

hasNode(g, e) == e \in Range(g.nodes)
hasEdge(g, a, b) == {a, b} \in DOMAIN g.edges

\* graph.neighbors(node): a self-loop makes the node its own neighbour
neighbors(g, a) == {b \in Range(g.nodes) : hasEdge(g, a, b)}

\* graph.degree(node): number of edge ends at the node (a self-loop has two)
degree(g, a) ==
  Cardinality({b \in Range(g.nodes) : b # a /\ hasEdge(g, a, b)})
    + (IF hasEdge(g, a, a) THEN 2 ELSE 0)

\* graph.addNode(email, {...}): raises when the key is already a node
addNode(g, e, twice) ==
  IF hasNode(g, e)
    THEN [g EXCEPT !.threw = TRUE]
    ELSE [g EXCEPT !.nodes = Append(g.nodes, e),
                   !.attrs = (e :> [canBeTwice |-> twice, meetingCount |-> 0])
                               @@ g.attrs]

\* the roster loop's body without the test of the active cell
AddRosterRow_NoActiveTest(g, row) ==
  IF row.email = 0 THEN g
  ELSE addNode(g, row.email, CanBeTwice(row.twice))

\* body of the roster loop for one row (lines 77-93)
AddRosterRow(g, row) ==
  IF row = NullRosterRow \/ row.email = 0 THEN g
  ELSE IF IsActive(row.active)
    THEN addNode(g, row.email, CanBeTwice(row.twice))
    ELSE g

\* for (let i = 1; i < table1Data.length; i++): row 0 is never read
RECURSIVE AddRosterRows(_, _, _)
AddRosterRows(g, table, i) ==
  IF g.threw \/ i > Len(table) THEN g
  ELSE AddRosterRows(AddRosterRow(g, table[i]), table, i + 1)

\* the history loop's body without the test that both endpoints are nodes
AddHistoryRow_NoNodeTest(g, row) ==
  IF row.email1 = 0 \/ row.email2 = 0 THEN g
  ELSE
    LET k == {row.email1, row.email2}
        d == parseDate(row.date)
    IN [g EXCEPT !.edges =
          IF k \in DOMAIN g.edges
            THEN [g.edges EXCEPT ![k] =
                    [count |-> @.count + 1, meetings |-> Append(@.meetings, d)]]
            ELSE (k :> [count |-> 1, meetings |-> <<d>>]) @@ g.edges]

\* the history loop's body when a row without a parseable date is dropped
AddHistoryRow_DropUndated(g, row) ==
  IF row.email1 = 0 \/ row.email2 = 0 THEN g
  ELSE IF ~hasNode(g, row.email1) \/ ~hasNode(g, row.email2) THEN g
  ELSE IF parseDate(row.date) = "null" THEN g
  ELSE
    LET k == {row.email1, row.email2}
        d == parseDate(row.date)
    IN [g EXCEPT !.edges =
          IF k \in DOMAIN g.edges
            THEN [g.edges EXCEPT ![k] =
                    [count |-> @.count + 1, meetings |-> Append(@.meetings, d)]]
            ELSE (k :> [count |-> 1, meetings |-> <<d>>]) @@ g.edges]

\* body of the history loop for one row (lines 99-126)
AddHistoryRow(g, row) ==
  IF row.email1 = 0 \/ row.email2 = 0 THEN g
  ELSE IF ~hasNode(g, row.email1) \/ ~hasNode(g, row.email2) THEN g
  ELSE
    LET a == row.email1
        b == row.email2
        k == {a, b}
        d == parseDate(row.date)
        e1 == IF k \in DOMAIN g.edges
                THEN [g.edges EXCEPT ![k] =
                        [count |-> @.count + 1, meetings |-> Append(@.meetings, d)]]
                ELSE (k :> [count |-> 1, meetings |-> <<d>>]) @@ g.edges
        a1 == [g.attrs EXCEPT ![a].meetingCount = @ + 1]
        a2 == [a1 EXCEPT ![b].meetingCount = @ + 1]
    IN [g EXCEPT !.edges = e1, !.attrs = a2]

\* for (let i = 1; i < table2Data.length; i++)
RECURSIVE AddHistoryRows(_, _, _)
AddHistoryRows(g, table, i) ==
  IF g.threw \/ i > Len(table) THEN g
  ELSE AddHistoryRows(AddHistoryRow(g, table[i]), table, i + 1)

\* the two loops started at row 0
buildConnectionGraph_FromRowZero(t1, t2) ==
  AddHistoryRows(AddRosterRows(EmptyGraph, t1, 1), t2, 1)

\* lines 71-130: both loops start at i = 1
buildConnectionGraph(t1, t2) ==
  AddHistoryRows(AddRosterRows(EmptyGraph, t1, 2), t2, 2)

\* the identities of the rows of a table that the roster loop makes nodes
ActiveIdentities(t1) ==
  {t1[i].email : i \in {j \in 2..Len(t1) : t1[j].email # 0 /\ IsActive(t1[j].active)}}

--------------------------------------------------------------------------
(* detectCommunities: breadth-first traversal from each unvisited node in  *)
(* node order; every node reached gets the current id                      *)

\* the traversal stopped after the neighbours of the start node
bfs_OneLevel(g, queue, visited) ==
  visited \cup {x \in neighbors(g, Head(queue)) : x \notin visited}

RECURSIVE bfs(_, _, _)
\* the while loop over the queue (lines 151-161); returns the visited set.
\* The neighbours are appended here in node order; the order in which
\* forEachNeighbor yields them changes the order of the queue only, not the
\* set of nodes reached
bfs(g, queue, visited) ==
  IF queue = <<>> THEN visited
  ELSE LET current == Head(queue)
           fresh == SelectSeq(g.nodes,
                      LAMBDA x : x \in neighbors(g, current) /\ x \notin visited)
       IN bfs(g, Tail(queue) \o fresh, visited \cup Range(fresh))

\* the first graph.forEachNode (lines 143-168); returns the map and the
\* next free community id
RECURSIVE detectLoop(_, _, _, _, _)
detectLoop(g, i, visited, comm, communityId) ==
  IF i > Len(g.nodes) THEN [map |-> comm, nextId |-> communityId]
  ELSE LET node == g.nodes[i] IN
    IF node \in visited THEN detectLoop(g, i + 1, visited, comm, communityId)
    ELSE LET all == bfs(g, <<node>>, visited \cup {node})
             members == all \ visited
         IN detectLoop(g, i + 1, all,
                       [m \in members |-> communityId] @@ comm,
                       communityId + 1)

\* the second graph.forEachNode (lines 171-175): nodes still without a
\* community get ids of their own
RECURSIVE assignRest(_, _, _, _)
assignRest(g, i, comm, communityId) ==
  IF i > Len(g.nodes) THEN comm
  ELSE IF g.nodes[i] \in DOMAIN comm THEN assignRest(g, i + 1, comm, communityId)
  ELSE assignRest(g, i + 1, (g.nodes[i] :> communityId) @@ comm, communityId + 1)

detectCommunities(g) ==
  LET first == detectLoop(g, 1, {}, <<>>, 0)
  IN assignRest(g, 1, first.map, first.nextId)

--------------------------------------------------------------------------
(* Pair scorers                                                            *)

Max(a, b) == IF a >= b THEN a ELSE b
Abs(x) == IF x < 0 THEN -x ELSE x

\* the diversity score counting the neighbours of the first node only
calculateDiversityScore_OwnNeighbours(email1, email2, g) ==
  IF ~hasNode(g, email1) \/ ~hasNode(g, email2) THEN BaseDiversity
  ELSE Max(0, BaseDiversity + (10 - Cardinality(neighbors(g, email1))))

\* lines 184-214
calculateDiversityScore(email1, email2, g) ==
  IF ~hasNode(g, email1) \/ ~hasNode(g, email2) THEN BaseDiversity
  ELSE LET commonNeighbors ==
             Cardinality(neighbors(g, email1) \cap neighbors(g, email2))
       IN Max(0, BaseDiversity + (10 - commonNeighbors))

\* the network score with the degree gap taken one-sidedly
calculateNetworkScore_OneSided(email1, email2, g, comm) ==
  (IF email1 \in DOMAIN comm /\ email2 \in DOMAIN comm
        /\ comm[email1] # comm[email2]
     THEN CROSS_COMMUNITY_BONUS ELSE 0)
  +
  (IF hasNode(g, email1) /\ hasNode(g, email2)
        /\ degree(g, email1) - degree(g, email2) > BridgeDegreeGap
     THEN BRIDGE_BUILDING_BONUS ELSE 0)

\* the network score with the bridge bonus from a degree gap of 2 on
calculateNetworkScore_GapOfTwo(email1, email2, g, comm) ==
  (IF email1 \in DOMAIN comm /\ email2 \in DOMAIN comm
        /\ comm[email1] # comm[email2]
     THEN CROSS_COMMUNITY_BONUS ELSE 0)
  +
  (IF hasNode(g, email1) /\ hasNode(g, email2)
        /\ Abs(degree(g, email1) - degree(g, email2)) >= BridgeDegreeGap
     THEN BRIDGE_BUILDING_BONUS ELSE 0)

\* lines 220-247
calculateNetworkScore(email1, email2, g, comm) ==
  (IF email1 \in DOMAIN comm /\ email2 \in DOMAIN comm
        /\ comm[email1] # comm[email2]
     THEN CROSS_COMMUNITY_BONUS ELSE 0)
  +
  (IF hasNode(g, email1) /\ hasNode(g, email2)
        /\ Abs(degree(g, email1) - degree(g, email2)) > BridgeDegreeGap
     THEN BRIDGE_BUILDING_BONUS ELSE 0)

\* an entry of the matrix computed without the test of graph.hasEdge
CostEntry_NoMetPenalty(emps, g, comm, i, j) ==
  IF i = j \/ emps[i] = emps[j] THEN Penalty
  ELSE -(WeightDiversity * calculateDiversityScore(emps[i], emps[j], g)
         + WeightNetwork * calculateNetworkScore(emps[i], emps[j], g, comm))

\* an entry of the matrix that gives a pair that has met the cost of the
\* best pair that has not
CostEntry_MetRewarded(emps, g, comm, i, j) ==
  IF i = j \/ emps[i] = emps[j] THEN Penalty
  ELSE IF hasEdge(g, emps[i], emps[j])
    THEN -(WeightDiversity * 20 + WeightNetwork * 80)
  ELSE -(WeightDiversity * calculateDiversityScore(emps[i], emps[j], g)
         + WeightNetwork * calculateNetworkScore(emps[i], emps[j], g, comm))

\* one entry of the matrix (body of the double loop, lines 265-292)
CostEntry(emps, g, comm, i, j) ==
  LET email1 == emps[i]
      email2 == emps[j]
  IN IF i = j \/ email1 = email2 THEN Penalty
     ELSE IF hasEdge(g, email1, email2) THEN Penalty
     ELSE -(WeightDiversity * calculateDiversityScore(email1, email2, g)
            + WeightNetwork * calculateNetworkScore(email1, email2, g, comm))

buildCostMatrix(emps, g, comm) ==
  [i \in 1..Len(emps) |-> [j \in 1..Len(emps) |-> CostEntry(emps, g, comm, i, j)]]

--------------------------------------------------------------------------
(* hungarianMatching                                                       *)

\* possiblePairs without the skip of pairs of equal identities
PossibleIndexPairs_NoIdentitySkip(emps) ==
  {ij \in (1..Len(emps)) \X (1..Len(emps)) : ij[1] < ij[2]}

\* the index pairs pushed to possiblePairs (lines 325-334): i < j, pairs of
\* equal identities skipped; they are pushed in ascending order of (i, j)
PossibleIndexPairs(emps) ==
  {ij \in (1..Len(emps)) \X (1..Len(emps)) :
     ij[1] < ij[2] /\ emps[ij[1]] # emps[ij[2]]}

\* p stands before q after possiblePairs.sort((a, b) => a.cost - b.cost):
\* the sort is stable, so pairs of equal cost keep their order of generation
SortsBefore(cm, p, q) ==
  \/ cm[p[1]][p[2]] < cm[q[1]][q[2]]
  \/ /\ cm[p[1]][p[2]] = cm[q[1]][q[2]]
     /\ (p[1] < q[1] \/ (p[1] = q[1] /\ p[2] < q[2]))

\* possiblePairs with the penalized pairs left out
SortedPairs_FreshOnly(emps, cm) ==
  LET S == {p \in PossibleIndexPairs(emps) : cm[p[1]][p[2]] < Penalty}
      rank == [p \in S |-> Cardinality({q \in S : SortsBefore(cm, q, p)}) + 1]
  IN [k \in 1..Cardinality(S) |->
        LET p == CHOOSE x \in S : rank[x] = k
        IN [i |-> p[1], j |-> p[2], cost |-> cm[p[1]][p[2]],
            email1 |-> emps[p[1]], email2 |-> emps[p[2]]]]

\* possiblePairs after the sort (line 337), as the sequence of pair records
SortedPairs(emps, cm) ==
  LET S == PossibleIndexPairs(emps)
      rank == [p \in S |-> Cardinality({q \in S : SortsBefore(cm, q, p)}) + 1]
  IN [k \in 1..Cardinality(S) |->
        LET p == CHOOSE x \in S : rank[x] = k
        IN [i |-> p[1], j |-> p[2], cost |-> cm[p[1]][p[2]],
            email1 |-> emps[p[1]], email2 |-> emps[p[2]]]]

\* bestMatching = null, bestCost = Infinity
NoBest == [found |-> FALSE, cost |-> 0, matching |-> <<>>]

\* backtrack(pairIndex, currentPairs, usedIndices, currentCost); best is the
\* closure's (bestMatching, bestCost), returned as updated by the call
RECURSIVE backtrack(_, _, _, _, _, _, _), tryPairs(_, _, _, _, _, _, _, _)

\* backtrack when a complete matching that holds a penalized pair is not
\* taken as a solution
backtrack_NoRepeats(P, targetPairs, pairIndex, currentPairs, usedIndices, currentCost, best) ==
  IF Len(currentPairs) = targetPairs
    THEN IF currentCost < Surcharge /\ (~best.found \/ currentCost < best.cost)
           THEN [found |-> TRUE, cost |-> currentCost, matching |-> currentPairs]
           ELSE best
  ELSE IF best.found /\ currentCost >= best.cost THEN best
  ELSE IF (Len(P) - (pairIndex - 1)) < (targetPairs - Len(currentPairs)) THEN best
  ELSE tryPairs(P, targetPairs, pairIndex, Len(P), currentPairs, usedIndices,
                currentCost, best)

\* backtrack when the first complete matching found is kept
backtrack_FirstFound(P, targetPairs, pairIndex, currentPairs, usedIndices, currentCost, best) ==
  IF Len(currentPairs) = targetPairs
    THEN IF ~best.found
           THEN [found |-> TRUE, cost |-> currentCost, matching |-> currentPairs]
           ELSE best
  ELSE IF best.found THEN best
  ELSE IF (Len(P) - (pairIndex - 1)) < (targetPairs - Len(currentPairs)) THEN best
  ELSE tryPairs(P, targetPairs, pairIndex, Len(P), currentPairs, usedIndices,
                currentCost, best)

\* lines 343-380
backtrack(P, targetPairs, pairIndex, currentPairs, usedIndices, currentCost, best) ==
  IF Len(currentPairs) = targetPairs
    THEN IF ~best.found \/ currentCost < best.cost
           THEN [found |-> TRUE, cost |-> currentCost, matching |-> currentPairs]
           ELSE best
  ELSE IF best.found /\ currentCost >= best.cost THEN best
  ELSE IF (Len(P) - (pairIndex - 1)) < (targetPairs - Len(currentPairs)) THEN best
  ELSE tryPairs(P, targetPairs, pairIndex, Len(P), currentPairs, usedIndices,
                currentCost, best)

\* the for loop of backtrack over the positions lo..hi, in ascending order:
\* the positions of the upper half are tried with the best matching that
\* the lower half has left
tryPairs(P, targetPairs, lo, hi, currentPairs, usedIndices, currentCost, best) ==
  IF lo > hi THEN best
  ELSE IF lo = hi
    THEN IF P[lo].i \in usedIndices \/ P[lo].j \in usedIndices
           THEN best
           ELSE backtrack(P, targetPairs, lo + 1, Append(currentPairs, P[lo]),
                          usedIndices \cup {P[lo].i, P[lo].j},
                          currentCost + P[lo].cost, best)
  ELSE LET mid == (lo + hi) \div 2
       IN CHOOSE result \in
            {tryPairs(P, targetPairs, mid + 1, hi, currentPairs, usedIndices,
                      currentCost, lower)
               : lower \in {tryPairs(P, targetPairs, lo, mid, currentPairs,
                                      usedIndices, currentCost, best)}} : TRUE

ToEmailPairs(matching) == [k \in 1..Len(matching) |->
                             <<matching[k].email1, matching[k].email2>>]

--------------------------------------------------------------------------
(* greedyWithLookahead                                                     *)

\* lines 419-443: the effective score of a candidate pair given the used set
\* (allPenalties stays true when fewer than two indices remain, but the
\* surcharge needs remaining.length >= 2)
EffectiveScore(n, cm, used, pair) ==
  LET remaining == (1..n) \ (used \cup {pair.i, pair.j})
      allPenalties == \A ri \in remaining : \A rj \in remaining :
                         ri < rj => ~(cm[ri][rj] < Penalty)
  IN IF Cardinality(remaining) >= 2 /\ allPenalties
       THEN pair.cost + Surcharge
       ELSE pair.cost

\* the look-ahead forbidding, not only discouraging, a surcharged candidate
FindBest_Forbids(n, cm, sortedPairs, used) ==
  LET cand == {k \in 1..Len(sortedPairs) :
                 /\ sortedPairs[k].i \notin used /\ sortedPairs[k].j \notin used
                 /\ EffectiveScore(n, cm, used, sortedPairs[k]) = sortedPairs[k].cost}
  IN IF cand = {} THEN 0
     ELSE CHOOSE k \in cand :
            \A k2 \in cand : sortedPairs[k].cost < sortedPairs[k2].cost
                               \/ (sortedPairs[k].cost = sortedPairs[k2].cost /\ k <= k2)

\* the for loop over sortedPairs (lines 412-449): the position of bestPair
\* in sortedPairs, 0 for null.  score < bestScore is strict, so among the
\* unused pairs of lowest effective score the first one in the list is kept
FindBest(n, cm, sortedPairs, used) ==
  LET cand == {k \in 1..Len(sortedPairs) :
                 sortedPairs[k].i \notin used /\ sortedPairs[k].j \notin used}
      score == [k \in cand |-> EffectiveScore(n, cm, used, sortedPairs[k])]
  IN IF cand = {} THEN 0
     ELSE CHOOSE k \in cand :
            \A k2 \in cand : score[k] < score[k2] \/ (score[k] = score[k2] /\ k <= k2)

\* the while loop (lines 407-456)
RECURSIVE greedyLoop(_, _, _, _, _, _)
greedyLoop(n, cm, sortedPairs, targetPairs, ps, used) ==
  IF ~(Len(ps) < targetPairs) THEN ps
  ELSE LET bp == FindBest(n, cm, sortedPairs, used) IN
    IF bp = 0 THEN ps
    ELSE greedyLoop(n, cm, sortedPairs, targetPairs,
                    Append(ps, <<sortedPairs[bp].email1, sortedPairs[bp].email2>>),
                    used \cup {sortedPairs[bp].i, sortedPairs[bp].j})

greedyWithLookahead(emps, cm, sortedPairs, targetPairs) ==
  greedyLoop(Len(emps), cm, sortedPairs, targetPairs, <<>>, {})

\* n > 12 (line 383): the greedy solver replaces the backtracking
UseGreedy(n) == n > ExactMaxSize

\* JavaScript values handed to hungarianMatching as its cost matrix: null
\* (or undefined), or an array whose items are such values or numbers
JsNull == [tag |-> "null"]
JsArray(items) == [tag |-> "array", items |-> items]

\* an array of arrays of numbers as a JavaScript value
JsMatrix(cm) == JsArray([i \in DOMAIN cm |-> JsArray(cm[i])])

\* the rows of an array of rows; a row that is null has no entries to read
RowsOfValue(m) ==
  [i \in DOMAIN m.items |->
     IF m.items[i].tag = "null" THEN <<>> ELSE m.items[i].items]

\* the validation with the loop over the rows left out
MatrixMalformed_RowsUnchecked(m) == m.tag = "null" \/ Len(m.items) = 0

\* lines 307-318: the matrix is null, has no rows, or has a row that is
\* missing or without entries
MatrixMalformed(m) ==
  \/ m.tag = "null"
  \/ Len(m.items) = 0
  \/ \E i \in DOMAIN m.items :
       m.items[i].tag = "null" \/ Len(m.items[i].items) = 0

\* lines 324-334 read costMatrix[i][j] for i < j of different identities:
\* such a read finds no row (a TypeError) or no entry (an undefined cost)
ReadFault(emps, m) ==
  \E ij \in PossibleIndexPairs(emps) :
    \/ ij[1] \notin DOMAIN m.items
    \/ m.items[ij[1]].tag = "null"
    \/ ij[2] \notin DOMAIN m.items[ij[1]].items

\* lines 320-393, on a matrix of numbers that has every entry read
matchValidated(emps, cm) ==
  LET n == Len(emps)
      targetPairs == n \div 2
      possiblePairs == SortedPairs(emps, cm)
  IN IF UseGreedy(n)
       THEN greedyWithLookahead(emps, cm, possiblePairs, targetPairs)
       ELSE LET best == backtrack(possiblePairs, targetPairs, 1, <<>>, {}, 0, NoBest)
            IN IF ~best.found THEN <<>> ELSE ToEmailPairs(best.matching)

\* hungarianMatching on any value: the outcome is a pair list, or a fault
\* when a cost that is not there is read
hungarianMatchingOnValue(emps, m) ==
  IF MatrixMalformed(m) THEN [fault |-> FALSE, pairs |-> <<>>]
  ELSE IF ReadFault(emps, m) THEN [fault |-> TRUE, pairs |-> <<>>]
  ELSE [fault |-> FALSE, pairs |-> matchValidated(emps, RowsOfValue(m))]

\* hungarianMatching on a matrix of numbers with a row per participant and
\* an entry per participant in each row (as buildCostMatrix returns it):
\* every cost read is there
hungarianMatching(emps, cm) ==
  IF MatrixMalformed(JsMatrix(cm)) THEN <<>> ELSE matchValidated(emps, cm)

--------------------------------------------------------------------------
(* The inputs explored: rosters and histories                              *)

\* the (active cell, twice cell) combinations used for roster rows
RowKinds == {<<"b:true", "">>, <<"s:TRUE", " Twice ">>, <<"b:false", "twice">>}

\* small rosters: a header and k rows for the identities 1..k
SmallRosters ==
  UNION {{<<RosterHeader>> \o [i \in 1..k |-> RosterRow(i, kinds[i][1], kinds[i][2])]
            : kinds \in [1..k -> RowKinds]} : k \in 0..MaxPeople}

\* rosters that list identity 1 a second time, in the last row
DuplicateRosters ==
  UNION {{<<RosterHeader>> \o [i \in 1..k |-> RosterRow(i, "b:true", "")]
            \o <<RosterRow(1, kind[1], kind[2])>>
            : kind \in RowKinds} : k \in 1..(MaxPeople - 1)}

AllPairs(n) == {<<a, b>> \in (1..n) \X (1..n) : a < b}

\* a set of pairs as history rows, in ascending order of (a, b)
RECURSIVE RowsOf(_)
RowsOf(S) ==
  IF S = {} THEN <<>>
  ELSE LET m == CHOOSE x \in S : \A y \in S :
                  x[1] < y[1] \/ (x[1] = y[1] /\ x[2] <= y[2])
       IN <<HistoryRow(m[1], m[2], "2024-01-01")>> \o RowsOf(S \ {m})

HistoryOf(S) == <<HistoryHeader>> \o RowsOf(S)

SmallHistories ==
  {HistoryOf(S) : S \in {T \in SUBSET AllPairs(MaxPeople) : Cardinality(T) <= MaxHistory}}
  \cup
  { HistoryOf(AllPairs(MaxPeople)),                       \* everyone met everyone
    <<HistoryHeader, HistoryRow(1, 1, "2024-01-01")>>,    \* a self-pairing row
    <<HistoryHeader, HistoryRow(1, 2, "2024-1-2"),
                     HistoryRow(2, 1, "02/01/2024"),
                     HistoryRow(3, 4, "")>>,              \* a repeated pair
    <<HistoryHeader, HistoryRow(0, 2, "2024-01-01"),
                     HistoryRow(1, 0, "2024-01-01"),
                     HistoryRow(2, 3, "2024-01-01")>>,    \* rows missing a cell
    <<HistoryHeader, HistoryRow(1, 2, "2024-01-01"),
                     HistoryRow(3, 2, "2024-01-01"),
                     HistoryRow(3, 4, "2024-01-01")>> }   \* a chain 1-2-3-4

\* rosters with rows that carry no identity: a null row, and a row whose
\* identity cell is blank although its other cells say active and twice
BlankRowRosters ==
  {<<RosterHeader, RosterRow(1, "b:true", ""), NullRosterRow,
     RosterRow(2, k[1], k[2]), RosterRow(0, "b:true", "twice"),
     RosterRow(3, "n:1", "")>> : k \in RowKinds}

\* rosters whose last row carries each value of the active cell
CellRosters ==
  {<<RosterHeader, RosterRow(1, "b:true", ""), RosterRow(2, "s:true", ""),
     RosterRow(3, cell, tw)>> : cell \in ActiveCells, tw \in {"", "TWICE"}}

\* large rosters, above the exact solver's size limit: all active, the
\* identities of tw flagged "twice"
LargeSizes == {ExactMaxSize + 1, ExactMaxSize + 2}

LargeRoster(n, tw) ==
  <<RosterHeader>> \o
    [i \in 1..n |-> RosterRow(i, "b:true", IF i \in tw THEN "twice" ELSE "")]

LargeRosters ==
  UNION {{LargeRoster(n, tw) : tw \in {{}, {1}, {n}, {2, n}}} : n \in LargeSizes}

\* histories in which identity 1 and/or identity 2 has met everybody except
\* the identities of ex1 / ex2
HubPairs(n, hub, ex) == {<<IF hub < x THEN hub ELSE x, IF hub < x THEN x ELSE hub>>
                           : x \in (1..n) \ ({hub} \cup ex)}

\* the last identity has met everybody except the one before it, who has met
\* nobody, and identity 1 has met three others: 1 and the last identity are
\* the two most valuable partners of the last but one
StrandingPairs(n) ==
  HubPairs(n, n, {n - 1}) \cup {<<1, 2>>, <<1, 3>>, <<1, 4>>}

LargeHistories(n) ==
  {HistoryOf(h1 \cup h2) :
     h1 \in {{}, HubPairs(n, 1, {}), HubPairs(n, 1, {2})},
     h2 \in {{}, HubPairs(n, 2, {1}), HubPairs(n, 2, {1, 3})}}
  \cup {HistoryOf(AllPairs(n)), HistoryOf(StrandingPairs(n))}

\* wide rosters: the least size at which two participants who never met
\* can share so many partners that the diversity score reaches its floor
\* (BaseDiversity + 10 common neighbours), all active
WideSize == 2 + BaseDiversity + 10

WideRosters == {LargeRoster(WideSize, {})}

\* identities 1 and 2 have both met everybody else, and not each other
WideHistories ==
  {HistoryOf(HubPairs(WideSize, 1, {2}) \cup HubPairs(WideSize, 2, {1}))}

--------------------------------------------------------------------------
(* generateOptimalPairs as a sequence of steps                             *)

\* tables without a header row: row 0 is a participant, a meeting
HeaderlessRosters ==
  {[i \in 1..k |-> RosterRow(i, "b:true", IF i = 1 THEN "twice" ELSE "")]
     : k \in 2..MaxPeople}

HeaderlessHistories ==
  { <<HistoryRow(2, 3, "2024-01-01")>>,
    <<HistoryRow(2, 3, "2024-01-01"), HistoryRow(2, 3, "2024-02-01")>>,
    <<HistoryRow(1, 2, "2024-01-01"), HistoryRow(3, 4, "2024-01-01")>>,
    HistoryOf({<<2, 3>>}) }

Init ==
  /\ \/ /\ table1Data \in SmallRosters \cup DuplicateRosters
                          \cup BlankRowRosters \cup CellRosters
        /\ table2Data \in SmallHistories
     \/ /\ table1Data \in LargeRosters
        /\ table2Data \in LargeHistories(Len(table1Data) - 1)
     \/ /\ table1Data \in WideRosters
        /\ table2Data \in WideHistories
     \/ /\ table1Data \in HeaderlessRosters
        /\ table2Data \in HeaderlessHistories
  /\ pc = "start"
  /\ graph = EmptyGraph
  /\ employees = <<>>
  /\ twiceUser = 0
  /\ communities = <<>>
  /\ costMatrix = <<>>
  /\ pairs = <<>>

\* Step 1 (lines 469-470); an exception of the graph leaves the function
BuildGraph ==
  /\ pc = "start"
  /\ graph' = buildConnectionGraph(table1Data, table2Data)
  /\ IF graph'.threw
       THEN pc' = "threw" /\ employees' = employees
       ELSE pc' = "built" /\ employees' = graph'.nodes
  /\ UNCHANGED <<table1Data, table2Data, twiceUser, communities, costMatrix, pairs>>

\* the test of line 475 with 1 in the place of 2
TooFew_One(emps) == Len(emps) < MinEmployees - 1
\* employees.length < 2 (line 475)
TooFew(emps) == Len(emps) < MinEmployees

\* lines 475-478
NotEnoughEmployees ==
  /\ pc = "built"
  /\ TooFew(employees)
  /\ pairs' = <<>>
  /\ pc' = "done"
  /\ UNCHANGED <<table1Data, table2Data, graph, employees, twiceUser,
                 communities, costMatrix>>

\* the candidates for duplication without the filter on canBeTwice
TwiceUsers_Unfiltered == employees

\* employees.filter(email => attrs.canBeTwice === true)
TwiceUsers == SelectSeq(employees, LAMBDA e : graph.attrs[e].canBeTwice = TRUE)

\* the parity test inverted
NeedsTwice_Even(emps) == Len(emps) % 2 = 0
\* employees.length % 2 !== 0 (line 482)
NeedsTwice(emps) == Len(emps) % 2 # 0

\* the duplicate pushed onto the roster table in place of the participant list
SelectTwiceUser_IntoRoster ==
  /\ pc = "built"
  /\ ~TooFew(employees)
  /\ NeedsTwice(employees)
  /\ Len(TwiceUsers) > 0
  /\ \E randomIndex \in 1..Len(TwiceUsers) :
        /\ twiceUser' = TwiceUsers[randomIndex]
        /\ employees' = Append(employees, TwiceUsers[randomIndex])
        /\ table1Data' = Append(table1Data,
                                RosterRow(TwiceUsers[randomIndex], TRUE, TRUE))
  /\ pc' = "expanded"
  /\ UNCHANGED <<table2Data, graph, communities, costMatrix, pairs>>

\* lines 482-497: Math.random picks any index of twiceUsers
SelectTwiceUser ==
  /\ pc = "built"
  /\ ~TooFew(employees)
  /\ NeedsTwice(employees)
  /\ Len(TwiceUsers) > 0
  /\ \E randomIndex \in 1..Len(TwiceUsers) :
        /\ twiceUser' = TwiceUsers[randomIndex]
        /\ employees' = Append(employees, TwiceUsers[randomIndex])
  /\ pc' = "expanded"
  /\ UNCHANGED <<table1Data, table2Data, graph, communities, costMatrix, pairs>>

\* lines 498-501 and the even case: the list is left as it is
KeepEmployees ==
  /\ pc = "built"
  /\ ~TooFew(employees)
  /\ ~(NeedsTwice(employees) /\ Len(TwiceUsers) > 0)
  /\ pc' = "expanded"
  /\ UNCHANGED <<table1Data, table2Data, graph, employees, twiceUser,
                 communities, costMatrix, pairs>>

\* Step 2 (line 506)
DetectCommunities ==
  /\ pc = "expanded"
  /\ communities' = detectCommunities(graph)
  /\ pc' = "communities"
  /\ UNCHANGED <<table1Data, table2Data, graph, employees, twiceUser,
                 costMatrix, pairs>>

\* Step 4 (line 523)
BuildCostMatrix ==
  /\ pc = "communities"
  /\ costMatrix' = buildCostMatrix(employees, graph, communities)
  /\ pc' = "matrix"
  /\ UNCHANGED <<table1Data, table2Data, graph, employees, twiceUser,
                 communities, pairs>>

\* the matching returned in either order of its pairs
Match_EitherOrder ==
  /\ pc = "matrix"
  /\ LET m == hungarianMatching(employees, costMatrix)
     IN pairs' \in {m, [k \in 1..Len(m) |-> m[Len(m) + 1 - k]]}
  /\ pc' = "done"
  /\ UNCHANGED <<table1Data, table2Data, graph, employees, twiceUser,
                 communities, costMatrix>>

\* Step 5 and the return (lines 529-572)
Match ==
  /\ pc = "matrix"
  /\ pairs' = hungarianMatching(employees, costMatrix)
  /\ pc' = "done"
  /\ UNCHANGED <<table1Data, table2Data, graph, employees, twiceUser,
                 communities, costMatrix>>

Next ==
  \/ BuildGraph
  \/ NotEnoughEmployees
  \/ SelectTwiceUser
  \/ KeepEmployees
  \/ DetectCommunities
  \/ BuildCostMatrix
  \/ Match

Spec == Init /\ [][Next]_vars

--------------------------------------------------------------------------
(* hungarianMatching called on its own (as the unit tests do), with any    *)
(* symmetric cost matrix over CostValues and the penalty on the diagonal   *)

MatrixSizes == 2..4
CostValues == {-10, -6, 0, Penalty}

MatrixOf(n, f) ==
  [i \in 1..n |-> [j \in 1..n |->
     IF i = j THEN Penalty
     ELSE IF i < j THEN f[<<i, j>>] ELSE f[<<j, i>>]]]

InitMatch ==
  /\ \E n \in MatrixSizes :
       /\ employees = [i \in 1..n |-> i]
       /\ costMatrix \in {MatrixOf(n, f) : f \in [AllPairs(n) -> CostValues]}
  /\ table1Data = <<RosterHeader>>
  /\ table2Data = <<HistoryHeader>>
  /\ pc = "matrix"
  /\ graph = EmptyGraph
  /\ twiceUser = 0
  /\ communities = <<>>
  /\ pairs = <<>>

NextMatch == Match

SpecMatch == InitMatch /\ [][NextMatch]_vars

--------------------------------------------------------------------------
(* hungarianMatching called on its own in heuristic mode: participant      *)
(* lists of distinct identities just above the threshold, with matrices    *)
(* whose entry for i < j is drawn by residue class from CostValues         *)

CostClasses == 0..2

\* the class of the entry (i, j), i < j
CostClass(i, j) == (i + 2 * j) % Cardinality(CostClasses)

GreedyMatrix(n, v) ==
  [i \in 1..n |-> [j \in 1..n |->
     IF i = j THEN Penalty
     ELSE IF i < j THEN v[CostClass(i, j)] ELSE v[CostClass(j, i)]]]

InitGreedy ==
  /\ \E n \in LargeSizes :
       /\ employees = [i \in 1..n |-> i]
       /\ costMatrix \in {GreedyMatrix(n, v) : v \in [CostClasses -> CostValues]}
  /\ table1Data = <<RosterHeader>>
  /\ table2Data = <<HistoryHeader>>
  /\ pc = "matrix"
  /\ graph = EmptyGraph
  /\ twiceUser = 0
  /\ communities = <<>>
  /\ pairs = <<>>

NextGreedy == Match

SpecGreedy == InitGreedy /\ [][NextGreedy]_vars

--------------------------------------------------------------------------
(* hungarianMatching called on its own with any value as cost matrix:      *)
(* null, an array without rows, arrays with rows that are null or empty,   *)
(* and proper square matrices                                              *)

RawMatrixSizes == 1..3

\* the kinds of row: an array of costs, null (or undefined), an empty array
RowShapes == {"costs", "null", "empty"}

\* a matrix of n rows of the given shapes; a row of costs has the penalty on
\* the diagonal and the cost of a fresh pair elsewhere
RawMatrix(n, shape) ==
  JsArray([i \in 1..n |->
    CASE shape[i] = "null" -> JsNull
      [] shape[i] = "empty" -> JsArray(<<>>)
      [] OTHER -> JsArray([j \in 1..n |->
                     IF i = j THEN Penalty
                     ELSE -(WeightDiversity * 2 * BaseDiversity)])])

ProperMatrix(n) == RawMatrix(n, [i \in 1..n |-> "costs"])

\* null, the array without rows, and the arrays with a null or empty row
BrokenMatrices ==
  {JsNull, JsArray(<<>>)} \cup
  UNION {{RawMatrix(n, shape) :
            shape \in {f \in [1..n -> RowShapes] : \E i \in 1..n : f[i] # "costs"}}
           : n \in RawMatrixSizes}

\* participant lists of 0 to 3 identities, one with a repeated identity
ParticipantLists == {<<>>, <<1>>, <<1, 2>>, <<1, 2, 3>>, <<1, 2, 1>>}

InitValidate ==
  /\ \/ /\ costMatrix \in BrokenMatrices
        /\ employees \in ParticipantLists
     \/ \E n \in RawMatrixSizes :
          /\ costMatrix = ProperMatrix(n)
          /\ employees \in {l \in ParticipantLists : Len(l) <= n}
  /\ table1Data = <<RosterHeader>>
  /\ table2Data = <<HistoryHeader>>
  /\ pc = "matrix"
  /\ graph = EmptyGraph
  /\ twiceUser = 0
  /\ communities = <<>>
  /\ pairs = <<>>

\* the call hungarianMatching(employees, costMatrix)
MatchValue ==
  /\ pc = "matrix"
  /\ LET result == hungarianMatchingOnValue(employees, costMatrix)
     IN /\ pairs' = result.pairs
        /\ pc' = IF result.fault THEN "threw" ELSE "done"
  /\ UNCHANGED <<table1Data, table2Data, graph, employees, twiceUser,
                 communities, costMatrix>>

NextValidate == MatchValue

SpecValidate == InitValidate /\ [][NextValidate]_vars

--------------------------------------------------------------------------
(* Rounds: generateOptimalPairs run again and again on a fixed roster, the *)
(* pairs of each round appended to the history before the next             *)

\* the even sizes of roster above MaxPeople that the exact solver handles
EvenSizes == {6, 8, 10, ExactMaxSize}

EvenRosters == {LargeRoster(n, {}) : n \in EvenSizes}

\* the number of rounds whose pairs the history holds
RoundsDone ==
  IF Len(table2Data) = 1 THEN 0
  ELSE CHOOSE r \in DOMAIN RoundDates :
         RoundDates[r] = table2Data[Len(table2Data)].date

InitRounds ==
  /\ table1Data \in SmallRosters \cup EvenRosters
  /\ table2Data = <<HistoryHeader>>
  /\ pc = "start"
  /\ graph = EmptyGraph
  /\ employees = <<>>
  /\ twiceUser = 0
  /\ communities = <<>>
  /\ costMatrix = <<>>
  /\ pairs = <<>>

\* table2Data.push([e1, e2, date, text]) for each returned pair, then the
\* next call starts
AppendPairs ==
  /\ pc = "done"
  /\ pairs # <<>>
  /\ RoundsDone + 1 < MaxRounds
  /\ table2Data' = table2Data \o
       [k \in 1..Len(pairs) |->
          HistoryRow(pairs[k][1], pairs[k][2], RoundDates[RoundsDone + 1])]
  /\ pc' = "start"
  /\ graph' = EmptyGraph
  /\ employees' = <<>>
  /\ twiceUser' = 0
  /\ communities' = <<>>
  /\ costMatrix' = <<>>
  /\ pairs' = <<>>
  /\ UNCHANGED table1Data

NextRounds == Next \/ AppendPairs

SpecRounds == InitRounds /\ [][NextRounds]_vars

--------------------------------------------------------------------------
(* detectNextRoundNumber and the labelling of a run's rows (index code).   *)
(* A text is a sequence of characters.                                     *)

\* config.spreadsheet.pairingTextBase: here a base with a character that is
\* special in a regular expression
PairingTextBase == <<"R", ".", "C">>

\* toLowerCase of a character (the letters that occur in the texts)
LowerChar(c) ==
  CASE c = "R" -> "r"
    [] c = "C" -> "c"
    [] c = "T" -> "t"
    [] OTHER -> c

DigitValue ==
  ("0" :> 0) @@ ("1" :> 1) @@ ("2" :> 2) @@ ("3" :> 3) @@ ("4" :> 4) @@
  ("5" :> 5) @@ ("6" :> 6) @@ ("7" :> 7) @@ ("8" :> 8) @@ ("9" :> 9)

IsDigit(c) == c \in DOMAIN DigitValue
IsSpace(c) == c = " "

\* a character of the base matching any character, as an unescaped "." does
BaseCharMatches_Unescaped(b, c) == b = "." \/ LowerChar(b) = LowerChar(c)

\* a character of the escaped base against a character of the text, under
\* the flag i
BaseCharMatches(b, c) == LowerChar(b) = LowerChar(c)

\* the base stands in the text at position p
BaseAt(text, base, p) ==
  /\ p + Len(base) - 1 <= Len(text)
  /\ \A k \in 1..Len(base) : BaseCharMatches(base[k], text[p + k - 1])

\* \s* from position q: the first position at or after q that holds no space
SkipSpaces(text, q) ==
  CHOOSE r \in q..(Len(text) + 1) :
    /\ \A x \in q..(r - 1) : IsSpace(text[x])
    /\ r = Len(text) + 1 \/ ~IsSpace(text[r])

\* the pattern base \s* # (\d+) matches from position p
MatchAt(text, base, p) ==
  /\ BaseAt(text, base, p)
  /\ LET q == SkipSpaces(text, p + Len(base))
     IN /\ q + 1 <= Len(text)
        /\ text[q] = "#"
        /\ IsDigit(text[q + 1])

\* (\d+): the last position of the run of digits that starts at q
DigitsEnd(text, q) ==
  CHOOSE e \in q..Len(text) :
    /\ \A x \in q..e : IsDigit(text[x])
    /\ e = Len(text) \/ ~IsDigit(text[e + 1])

\* parseInt(match[1], 10) of the digits at positions q..e
RECURSIVE parseInt(_, _, _)
parseInt(text, q, e) ==
  IF q > e THEN 0
  ELSE 10 * parseInt(text, q, e - 1) + DigitValue[text[e]]

NoMatch == -1

\* textValue.match(pattern): the round number of the leftmost match, or
\* NoMatch
MatchedRound(text, base) ==
  LET starts == {p \in 1..Len(text) : MatchAt(text, base, p)}
  IN IF starts = {} THEN NoMatch
     ELSE LET p == CHOOSE x \in starts : \A y \in starts : x <= y
              q == SkipSpaces(text, p + Len(base))
          IN parseInt(text, q + 1, DigitsEnd(text, q + 1))

\* the loop of detectNextRoundNumber: rows from index 1, rows without a
\* text skipped
detectNextRoundNumber(table, baseText) ==
  LET found == {MatchedRound(table[i].text, baseText) :
                  i \in {j \in 2..Len(table) : table[j].text # <<>>}} \ {NoMatch}
  IN 1 + (IF found = {} THEN 0
          ELSE CHOOSE m \in found : \A x \in found : x <= m)

\* the decimal digits of a number, as characters
DigitChar(d) == CHOOSE c \in DOMAIN DigitValue : DigitValue[c] = d
RECURSIVE ToDigits(_)
ToDigits(n) ==
  IF n < 10 THEN <<DigitChar(n)>>
  ELSE Append(ToDigits(n \div 10), DigitChar(n % 10))

\* `${pairingTextBase} #${roundNumber}`
PairingText(base, roundNumber) == base \o <<" ", "#">> \o ToDigits(roundNumber)

\* the text cells of the histories explored
LabelTexts == {
  <<>>,
  <<"R", ".", "C", " ", "#", "1">>,
  <<"R", ".", "C", " ", "#", "7">>,
  <<"r", ".", "c", "#", "3">>,
  <<"R", ".", "C", " ", " ", "#", "1", "0">>,
  <<"R", "x", "C", " ", "#", "9">>,
  <<"T", ".", "C", " ", "#", "8">>,
  <<"R", ".", "C", " ", "#", "x">>,
  <<"o", "l", "d", " ", "R", ".", "C", " ", "#", "5", "b">>,
  <<"R", ".", "C", " ", "#", "2", " ", "R", ".", "C", " ", "#", "6">> }

\* the text cell of row 0: a column title, or a text that looks like a label
HeaderTexts == {<<"t", "e", "x", "t">>, <<"R", ".", "C", " ", "#", "1", "1">>}

\* the date text written for the rows of a run (dd/mm/yyyy)
RunDate == "01/11/2026"

\* the pair lists a run may have to append (none: the run ends before
\* anything is appended)
NewPairLists == {<<>>, <<<<1, 2>>>>, <<<<1, 3>>, <<2, 4>>>>}

\* the numbers of rows of the histories the labelling starts from
StartRows == 0..2

\* the number of runs that have appended rows (each writes its own text)
RunsDone ==
  Cardinality({table2Data[i].text :
                 i \in {j \in 2..Len(table2Data) : table2Data[j].date = RunDate}})

LabelHistories ==
  UNION {{<<LabelledRow(998, 997, "date", h)>> \o
            [i \in 1..k |-> LabelledRow(i, i + 1, "2024-01-01", texts[i])]
              : h \in HeaderTexts, texts \in [1..k -> LabelTexts]}
           : k \in StartRows}

InitLabels ==
  /\ table2Data \in LabelHistories
  /\ pairs \in NewPairLists
  /\ pc = "done"
  /\ table1Data = <<RosterHeader>>
  /\ graph = EmptyGraph
  /\ employees = <<>>
  /\ twiceUser = 0
  /\ communities = <<>>
  /\ costMatrix = <<>>

\* newPairs.length === 0: the run ends, the table is not touched
NoNewPairs ==
  /\ pc = "done"
  /\ pairs = <<>>
  /\ pc' = "appended"
  /\ UNCHANGED <<table1Data, table2Data, graph, employees, twiceUser,
                 communities, costMatrix, pairs>>

\* Step 4: the round number is detected once, every new pair is pushed with
\* the same text
AppendLabelled ==
  /\ pc = "done"
  /\ pairs # <<>>
  /\ LET roundNumber == detectNextRoundNumber(table2Data, PairingTextBase)
         pairingText == PairingText(PairingTextBase, roundNumber)
     IN /\ RunsDone < MaxRuns
        /\ table2Data' = table2Data \o
             [k \in 1..Len(pairs) |->
                LabelledRow(pairs[k][1], pairs[k][2], RunDate, pairingText)]
  /\ pc' = "appended"
  /\ UNCHANGED <<table1Data, graph, employees, twiceUser, communities,
                 costMatrix, pairs>>

\* the next run, with the pairs it is to append
NextRun ==
  /\ pc = "appended"
  /\ pairs' \in NewPairLists
  /\ pc' = "done"
  /\ UNCHANGED <<table1Data, table2Data, graph, employees, twiceUser,
                 communities, costMatrix>>

NextLabels == NoNewPairs \/ AppendLabelled \/ NextRun

SpecLabels == InitLabels /\ [][NextLabels]_vars

--------------------------------------------------------------------------
(* Vocabulary of the properties                                            *)

Done == pc = "done"

\* the active identities as the roster table states them
Actives == ActiveIdentities(table1Data)
ActiveCount == Cardinality(Actives)

\* some active roster row carries the twice flag
HasFlagged ==
  \E i \in 2..Len(table1Data) :
     /\ table1Data[i].email # 0
     /\ IsActive(table1Data[i].active)
     /\ CanBeTwice(table1Data[i].twice)

PairSet(k) == {pairs[k][1], pairs[k][2]}
PairsWith(e) == {k \in 1..Len(pairs) : e \in PairSet(k)}
Occ(e) == Cardinality(PairsWith(e))
Mentioned == UNION {PairSet(k) : k \in 1..Len(pairs)}
PartnersOf(e) == UNION {PairSet(k) \ {e} : k \in PairsWith(e)}

\* the two identities are rows of history with both active (an edge)
Met(a, b) == hasEdge(graph, a, b)
RepeatedPairs == {k \in 1..Len(pairs) : Met(pairs[k][1], pairs[k][2])}
EmptyHistory == Len(table2Data) <= 1
Saturated == \A a \in Actives : \A b \in Actives : a # b => Met(a, b)
HeuristicMode == Len(employees) > ExactMaxSize

\* a matching of floor(m/2) index-disjoint pairs of the participant list
\* exists in which no pair has met and no pair joins an identity to itself
RECURSIVE CanMatchFresh(_, _)
CanMatchFresh(free, skip) ==
  IF Cardinality(free) <= skip THEN TRUE
  ELSE LET i == CHOOSE x \in free : \A y \in free : x <= y IN
    \/ \E j \in free \ {i} :
          /\ employees[i] # employees[j]
          /\ ~Met(employees[i], employees[j])
          /\ CanMatchFresh(free \ {i, j}, skip)
    \/ (skip > 0 /\ CanMatchFresh(free \ {i}, skip - 1))

RepeatFreeMatchingExists ==
  CanMatchFresh(1..Len(employees), Len(employees) % 2)

--------------------------------------------------------------------------
(* C1: in every returned pair list no pair joins an identity to itself, no *)
(* identity is in more than two pairs, and an identity is in two pairs     *)
(* only if the active count is odd and it is the duplicated twice          *)
(* participant.                                                            *)
C1_PairListShape ==
  Done =>
    /\ \A k \in 1..Len(pairs) : pairs[k][1] # pairs[k][2]
    /\ \A e \in Mentioned :
         /\ Occ(e) <= 2
         /\ Occ(e) = 2 => (ActiveCount % 2 = 1 /\ HasFlagged /\ twiceUser = e)

C1_Witness ==
  /\ Done
  /\ twiceUser # 0
  /\ Occ(twiceUser) = 2
  /\ Len(table2Data) > 1

C3_Original ==
  (Done /\ EmptyHistory /\ ActiveCount >= 2) =>
    /\ Len(pairs) = ActiveCount \div 2
    /\ \A e \in Mentioned : Occ(e) = 1
    /\ Cardinality(Mentioned) =
         IF ActiveCount % 2 = 1 /\ ~HasFlagged THEN ActiveCount - 1 ELSE ActiveCount

(* C3 amended: with n >= 2 active participants and empty history the       *)
(* result has floor(n/2) pairs covering every identity once (n even),      *)
(* (n-1)/2 pairs covering n-1 identities once (n odd, nobody flagged), or  *)
(* (n+1)/2 pairs covering every identity once and the duplicated twice     *)
(* participant twice (n odd, somebody flagged).                            *)
C3_EmptyHistoryCover ==
  (Done /\ EmptyHistory /\ ActiveCount >= 2) =>
    /\ Mentioned \subseteq Actives
    /\ \A k \in 1..Len(pairs) : pairs[k][1] # pairs[k][2]
    /\ IF ActiveCount % 2 = 0
         THEN /\ Len(pairs) = ActiveCount \div 2
              /\ \A e \in Actives : Occ(e) = 1
       ELSE IF ~HasFlagged
         THEN /\ Len(pairs) = (ActiveCount - 1) \div 2
              /\ Cardinality(Mentioned) = ActiveCount - 1
              /\ \A e \in Mentioned : Occ(e) = 1
       ELSE /\ Len(pairs) = (ActiveCount + 1) \div 2
            /\ twiceUser \in Actives
            /\ \A e \in Actives : Occ(e) = IF e = twiceUser THEN 2 ELSE 1

C3_Witness ==
  /\ Done
  /\ EmptyHistory
  /\ ActiveCount = ExactMaxSize + 1
  /\ twiceUser # 0
  /\ Len(pairs) = (ActiveCount + 1) \div 2

(* C4: when the active count is odd and some active participant is         *)
(* flagged, the result covers every active identity at least once and at   *)
(* most one identity is in exactly two pairs.                              *)
C4_OddTwiceCoversAll ==
  (Done /\ ActiveCount % 2 = 1 /\ ActiveCount >= 2 /\ HasFlagged) =>
    /\ \A e \in Actives : Occ(e) >= 1
    /\ Cardinality({e \in Actives : Occ(e) = 2}) <= 1

(* C5: when the active count is odd (>= 3) and somebody is flagged, the    *)
(* selected participant is in exactly two pairs with two different         *)
(* partners, everybody else in exactly one, and there are (n+1)/2 pairs.   *)
C5_TwiceInTwoPairs ==
  (Done /\ ActiveCount % 2 = 1 /\ ActiveCount >= 3 /\ HasFlagged) =>
    /\ twiceUser \in Actives
    /\ Occ(twiceUser) = 2
    /\ Cardinality(PartnersOf(twiceUser)) = 2
    /\ \A e \in Actives \ {twiceUser} : Occ(e) = 1
    /\ Len(pairs) = (ActiveCount + 1) \div 2

\* index of an identity in the participant list (the rows of a duplicated
\* participant hold the same costs)
IndexOf(e) == CHOOSE i \in 1..Len(employees) :
                 employees[i] = e /\ \A j \in 1..(i - 1) : employees[j] # e

RECURSIVE SumCosts(_)
SumCosts(k) ==
  IF k = 0 THEN 0
  ELSE costMatrix[IndexOf(pairs[k][1])][IndexOf(pairs[k][2])] + SumCosts(k - 1)

TotalCost == SumCosts(Len(pairs))

NoMatching == Penalty * 1000
Min(a, b) == IF a <= b THEN a ELSE b

\* least total cost of a matching of the indices of free that leaves skip
\* of them out and joins no identity to itself; NoMatching if there is none
RECURSIVE MinCostFrom(_, _)
MinCostFrom(free, skip) ==
  IF Cardinality(free) <= skip THEN 0
  ELSE LET i == CHOOSE x \in free : \A y \in free : x <= y
           with == {LET r == MinCostFrom(free \ {i, j}, skip)
                    IN IF r = NoMatching THEN NoMatching ELSE costMatrix[i][j] + r
                      : j \in {x \in free \ {i} : employees[x] # employees[i]}}
           without == IF skip > 0 THEN {MinCostFrom(free \ {i}, skip - 1)} ELSE {}
           all == with \cup without \cup {NoMatching}
       IN CHOOSE c \in all : \A d \in all : c <= d

MinTotalCost == MinCostFrom(1..Len(employees), Len(employees) % 2)

(* C6: in exact mode the returned matching has floor(m/2) index-disjoint   *)
(* pairs and its total cost is the least total cost of any such matching.  *)
C6_ExactIsOptimal ==
  (Done /\ Len(employees) >= MinEmployees /\ ~HeuristicMode) =>
    /\ Len(pairs) = Len(employees) \div 2
    /\ TotalCost = MinTotalCost

(* C7: generateOptimalPairs never raises, whatever the roster and history. *)
C7_NeverThrows == pc # "threw"

C9_OddNoTwiceLeavesOne ==
  (Done /\ ActiveCount % 2 = 1 /\ ActiveCount >= 3 /\ ~HasFlagged) =>
    /\ Len(employees) = ActiveCount
    /\ twiceUser = 0
    /\ Len(pairs) = (ActiveCount - 1) \div 2
    /\ Cardinality({e \in Actives : Occ(e) = 0}) = 1
    /\ \A e \in Actives : Occ(e) <= 1
    /\ \A k \in 1..Len(pairs) :
         /\ pairs[k][1] # 0 /\ pairs[k][2] # 0
         /\ PairSet(k) \subseteq Range(employees)

C9_Witness ==
  /\ Done
  /\ ActiveCount % 2 = 1
  /\ ActiveCount >= 3
  /\ ~HasFlagged
  /\ Len(pairs) >= 1
  /\ Len(table2Data) > 1

(* C10: every identity of a returned pair is an active participant of the  *)
(* roster; inactive roster entries and identities that occur only in       *)
(* history are in no pair.                                                 *)
C10_OnlyActivesPaired ==
  Done => \A k \in 1..Len(pairs) :
            \A e \in PairSet(k) :
              \E i \in 2..Len(table1Data) :
                 table1Data[i].email = e /\ IsActive(table1Data[i].active)

C10_Witness ==
  /\ Done
  /\ Len(pairs) >= 1
  /\ \E i \in 2..Len(table1Data) : ~IsActive(table1Data[i].active)
  /\ \E i \in 2..Len(table2Data) :
        table2Data[i].email1 \notin {table1Data[j].email : j \in 2..Len(table1Data)}

--------------------------------------------------------------------------
(* The connection graph against the two tables                             *)

\* buildConnectionGraph has just returned its graph (no later step changes it)
GraphBuilt == pc = "built"

\* the history rows (below the header) that pair a with b, in either order
HistoryRowsFor(a, b) ==
  {i \in 2..Len(table2Data) :
     \/ table2Data[i].email1 = a /\ table2Data[i].email2 = b
     \/ table2Data[i].email1 = b /\ table2Data[i].email2 = a}

\* the endpoint sets of the edges of the graph
EdgeKeys == DOMAIN graph.edges

\* C11: after buildConnectionGraph, two distinct active identities are
\* joined by an edge iff some history row pairs them (in either order),
\* every edge joins active identities, and no edge is a self-loop, even
\* when a history row pairs an active identity with itself.  (The graph is
\* a simple graph: an edge is identified by its endpoints, so there is at
\* most one per unordered pair.)
C11_EdgesIffMetNoSelfLoop ==
  GraphBuilt =>
    /\ \A a \in Actives : \A b \in Actives \ {a} :
         hasEdge(graph, a, b) <=> HistoryRowsFor(a, b) # {}
    /\ \A k \in EdgeKeys : k \subseteq Actives /\ Cardinality(k) = 2

\* the part of C11 about pairs of distinct identities
C11_DistinctPairsPart ==
  GraphBuilt =>
    /\ \A a \in Actives : \A b \in Actives \ {a} :
         hasEdge(graph, a, b) <=> HistoryRowsFor(a, b) # {}
    /\ \A k \in EdgeKeys : k \subseteq Actives


\* the history rows (below the header) whose two identities are exactly the
\* endpoints k of an edge
RowsOfEdge(k) ==
  {i \in 2..Len(table2Data) : {table2Data[i].email1, table2Data[i].email2} = k}

\* the j-th of those rows, in table order
NthRowOfEdge(k, j) ==
  CHOOSE i \in RowsOfEdge(k) : Cardinality({x \in RowsOfEdge(k) : x < i}) = j - 1

\* C12: for every edge of the built graph, count equals the number of
\* history rows for that pair and equals the length of the meetings list;
\* the j-th entry of the list comes from the j-th such row, and is null
\* exactly when that row's date is missing or is not an ISO date text.
C12_CountEqualsRows ==
  GraphBuilt =>
    \A k \in EdgeKeys :
      LET e == graph.edges[k]
      IN /\ e.count = Cardinality(RowsOfEdge(k))
         /\ Len(e.meetings) = e.count
         /\ \A j \in 1..Len(e.meetings) :
              LET d == table2Data[NthRowOfEdge(k, j)].date
              IN IF d \in IsoDates THEN e.meetings[j] = d
                                   ELSE e.meetings[j] = "null"

\* an edge built from two rows, the second with a date that does not parse
C12_Witness ==
  /\ GraphBuilt
  /\ \E k \in EdgeKeys :
       /\ Cardinality(k) = 2
       /\ graph.edges[k].count = 2
       /\ graph.edges[k].meetings[2] = "null"
       /\ table2Data[NthRowOfEdge(k, 2)].date # ""


\* a history row both of whose endpoints are present and active
RowIsLive(row) == row.email1 \in Actives /\ row.email2 \in Actives

\* the history without the rows that miss an endpoint or name an identity
\* that is not active
LiveHistory ==
  <<table2Data[1]>> \o SelectSeq(SubSeq(table2Data, 2, Len(table2Data)), RowIsLive)

\* the number of ends that live history rows have at identity a
LiveEndsAt(a) ==
  Cardinality({i \in 2..Len(table2Data) :
                 RowIsLive(table2Data[i]) /\ table2Data[i].email1 = a})
  + Cardinality({i \in 2..Len(table2Data) :
                 RowIsLive(table2Data[i]) /\ table2Data[i].email2 = a})

\* some identity is carried by two active rows of the roster
DuplicateActiveRow ==
  \E i \in 2..Len(table1Data) : \E j \in (i + 1)..Len(table1Data) :
    /\ table1Data[i].email # 0
    /\ table1Data[i].email = table1Data[j].email
    /\ IsActive(table1Data[i].active) /\ IsActive(table1Data[j].active)

\* C13: the nodes of the built graph are exactly the identities of the
\* active roster rows (rows that are null or lack an identity are skipped
\* and raise nothing: only a repeated active identity makes the build
\* raise), and a history row with a missing endpoint or an endpoint that is
\* not an active node adds no edge and changes no count: every edge joins
\* active identities, the graph is the one built from the live rows alone,
\* and each node's meetingCount counts the ends of live rows only.
C13_NodesAreActivesDeadRowsIgnored ==
  /\ pc = "threw" => DuplicateActiveRow
  /\ GraphBuilt =>
       /\ Range(graph.nodes) = Actives
       /\ Len(graph.nodes) = Cardinality(Actives)
       /\ \A k \in EdgeKeys : k \subseteq Actives
       /\ graph = buildConnectionGraph(table1Data, LiveHistory)
       /\ \A a \in Actives : graph.attrs[a].meetingCount = LiveEndsAt(a)

\* a graph built from a roster with a null row, a row without identity and
\* an inactive row, and a history with a row missing an endpoint and a row
\* naming the inactive identity
C13_Witness ==
  /\ GraphBuilt
  /\ \E i \in 2..Len(table1Data) : table1Data[i] = NullRosterRow
  /\ \E i \in 2..Len(table1Data) :
       table1Data[i].email = 0 /\ IsActive(table1Data[i].active)
  /\ \E i \in 2..Len(table2Data) : table2Data[i].email1 = 0
  /\ \E i \in 2..Len(table2Data) :
       /\ table2Data[i].email1 # 0 /\ table2Data[i].email2 # 0
       /\ ~RowIsLive(table2Data[i])
  /\ Cardinality(Actives) = 2
  /\ EdgeKeys = {}

--------------------------------------------------------------------------
(* Communities against connectivity                                        *)

\* detectCommunities has just returned its map (no later step changes it)
CommunitiesDetected == pc = "communities"

\* the least set of nodes that contains S and the neighbours of its members
RECURSIVE Closure(_)
Closure(S) ==
  LET T == S \cup UNION {neighbors(graph, x) : x \in S}
  IN IF T = S THEN S ELSE Closure(T)

\* the connected component of node a: everything joined to a by a path
Component(a) == Closure({a})

Components == {Component(a) : a \in Range(graph.nodes)}

\* C14: detectCommunities gives every node an identifier; two nodes have
\* the same identifier iff a path of edges joins them; so an isolated node
\* shares its identifier with nobody and the number of distinct identifiers
\* is the number of connected components.
C14_CommunitiesAreComponents ==
  CommunitiesDetected =>
    /\ DOMAIN communities = Range(graph.nodes)
    /\ \A a \in Range(graph.nodes) :
         LET comp == Component(a)
         IN \A b \in Range(graph.nodes) :
              communities[a] = communities[b] <=> b \in comp
    /\ \A a \in Range(graph.nodes) :
         neighbors(graph, a) \subseteq {a} =>
           \A b \in Range(graph.nodes) \ {a} : communities[b] # communities[a]
    /\ Cardinality({communities[a] : a \in Range(graph.nodes)})
         = Cardinality(Components)

\* communities of a graph with a component in which two nodes are joined
\* only through a third, and with an isolated node
C14_Witness ==
  /\ CommunitiesDetected
  /\ \E a \in Range(graph.nodes) : \E b \in Component(a) \ {a} :
       ~hasEdge(graph, a, b) /\ communities[a] = communities[b]
  /\ \E c \in Range(graph.nodes) : neighbors(graph, c) = {}
  /\ Cardinality(Components) >= 2

--------------------------------------------------------------------------
(* The cost matrix                                                         *)

\* buildCostMatrix has just returned its matrix (no later step changes it)
MatrixBuilt == pc = "matrix"

Indices == 1..Len(employees)

\* the pair of positions i, j is one the matrix must penalize
MustPenalize(i, j) ==
  i = j \/ employees[i] = employees[j] \/ Met(employees[i], employees[j])

\* C15 as stated: entry [i][j] is the penalty iff i = j, or i and j carry
\* the same identity, or an edge joins them; every other entry is negative
\* and below the penalty.
C15_Original ==
  MatrixBuilt =>
    /\ Len(costMatrix) = Len(employees)
    /\ \A i \in Indices : \A j \in Indices :
         /\ costMatrix[i][j] = Penalty <=> MustPenalize(i, j)
         /\ ~MustPenalize(i, j) => costMatrix[i][j] < 0 /\ costMatrix[i][j] < Penalty

\* C15, amended: the same, with every other entry at most zero
C15_PenaltyIffMetElseNotPositive ==
  MatrixBuilt =>
    /\ Len(costMatrix) = Len(employees)
    /\ \A i \in Indices :
         /\ Len(costMatrix[i]) = Len(employees)
         /\ \A j \in Indices :
              /\ costMatrix[i][j] = Penalty <=> MustPenalize(i, j)
              /\ ~MustPenalize(i, j) =>
                   costMatrix[i][j] <= 0 /\ costMatrix[i][j] < Penalty

\* a matrix with the three kinds of penalized entry (diagonal, the two
\* copies of the duplicated participant, a pair that met) and a negative
\* entry
C15_Witness ==
  /\ MatrixBuilt
  /\ twiceUser # 0
  /\ \E i \in Indices : \E j \in Indices \ {i} :
       employees[i] = employees[j] /\ costMatrix[i][j] = Penalty
  /\ \E i \in Indices : \E j \in Indices :
       employees[i] # employees[j] /\ Met(employees[i], employees[j])
         /\ costMatrix[i][j] = Penalty
  /\ \E i \in Indices : \E j \in Indices : costMatrix[i][j] < 0


\* C16: the cost matrix is symmetric in value: costMatrix[i][j] equals
\* costMatrix[j][i] for all positions i, j, the two positions of a
\* duplicated participant included.
C16_MatrixSymmetric ==
  MatrixBuilt =>
    \A i \in Indices : \A j \in Indices : costMatrix[i][j] = costMatrix[j][i]

\* a matrix over a list with a duplicated participant, with an entry that
\* is not penalized between two participants whose degrees differ by more
\* than the bridge gap
C16_Witness ==
  /\ MatrixBuilt
  /\ twiceUser # 0
  /\ \E i \in Indices : \E j \in Indices :
       /\ ~MustPenalize(i, j)
       /\ degree(graph, employees[i]) - degree(graph, employees[j]) > BridgeDegreeGap
       /\ costMatrix[i][j] < 0

--------------------------------------------------------------------------
(* Too few participants, malformed matrices                                *)

\* the roster rows (below the header) that are active
ActiveRows ==
  {i \in 2..Len(table1Data) :
     table1Data[i].email # 0 /\ IsActive(table1Data[i].active)}

\* C17: when fewer than 2 rows of the roster are active participants (none
\* or one, whatever the history and the twice flags), generateOptimalPairs
\* raises nothing, duplicates nobody and returns the empty list: it never
\* goes past the test of the population size.
C17_TooFewGivesEmpty ==
  Cardinality(ActiveRows) < 2 =>
    /\ pc \in {"start", "built", "done"}
    /\ twiceUser = 0
    /\ Len(employees) = (IF pc = "start" THEN 0 ELSE Cardinality(ActiveRows))
    /\ pairs = <<>>

\* the call has returned for a roster whose only active participant is
\* flagged "twice" and stands in a history row, next to inactive rows
C17_Witness ==
  /\ pc = "done"
  /\ Cardinality(ActiveRows) = 1
  /\ Len(table1Data) > 2
  /\ \E i \in ActiveRows :
       /\ CanBeTwice(table1Data[i].twice)
       /\ \E r \in 2..Len(table2Data) : table2Data[r].email1 = table1Data[i].email
  /\ pairs = <<>>

\* the value is null, an array without rows, or an array with a row that is
\* null or has length 0
NullOrLacksRow(m) ==
  IF m.tag = "null" THEN TRUE
  ELSE IF Len(m.items) = 0 THEN TRUE
  ELSE \E i \in 1..Len(m.items) :
         IF m.items[i].tag = "null" THEN TRUE ELSE Len(m.items[i].items) = 0

\* C18: hungarianMatching returns the empty list and raises nothing
\* whenever its cost matrix is null, has no rows, or has a row that is
\* missing or empty, whatever the participant list.
C18_MalformedMatrixGivesEmpty ==
  (pc \in {"done", "threw"} /\ NullOrLacksRow(costMatrix)) =>
    pc = "done" /\ pairs = <<>>

\* the call has returned for three participants and a matrix whose first
\* two rows are proper and whose third is missing
C18_Witness ==
  /\ pc = "done"
  /\ Len(employees) = 3
  /\ costMatrix.tag = "array" /\ Len(costMatrix.items) = 3
  /\ costMatrix.items[1].tag = "array" /\ Len(costMatrix.items[1].items) = 3
  /\ costMatrix.items[2].tag = "array" /\ Len(costMatrix.items[2].items) = 3
  /\ costMatrix.items[3].tag = "null"
  /\ pairs = <<>>

\* the call returns pairs for a proper matrix
C18_ProperMatrixPairs ==
  /\ pc = "done"
  /\ ~NullOrLacksRow(costMatrix)
  /\ Len(pairs) = 1

--------------------------------------------------------------------------
(* The encodings of the active cell                                        *)

\* the roster rows (below the header) that carry an identity that no other
\* row carries
SingleRows ==
  {i \in 2..Len(table1Data) :
     /\ table1Data[i].email # 0
     /\ \A j \in 2..Len(table1Data) :
          j # i => table1Data[j].email # table1Data[i].email}

\* the text "true" in any letter case, among the texts of ActiveCells
TrueInAnyCase == {"s:true", "s:TRUE", "s:True"}

\* C19: a roster row is treated as active (its identity becomes a node) iff
\* its active cell is the boolean true, the number 1, or the text "true"
\* in any letter case; every other value leaves the participant out.
C19_ActiveIffTrueAnyCase ==
  GraphBuilt =>
    \A i \in SingleRows :
      hasNode(graph, table1Data[i].email)
        <=> table1Data[i].active \in {"b:true", "n:1"} \cup TrueInAnyCase

\* what the code accepts: boolean true, 1, and the texts "true" and "TRUE"
C19_ExactEncodingsPart ==
  GraphBuilt =>
    \A i \in SingleRows :
      hasNode(graph, table1Data[i].email)
        <=> table1Data[i].active \in {"b:true", "n:1", "s:true", "s:TRUE"}

--------------------------------------------------------------------------
(* Round after round                                                       *)

\* C20: for a roster with an even number n <= 12 of active participants,
\* starting from the empty history and appending each round's pairs to the
\* history, every round, after any number of earlier rounds, returns
\* exactly n/2 pairs in which each of the n identities stands exactly once.
C20_EveryRoundCoversAll ==
  (Done /\ ActiveCount % 2 = 0 /\ ActiveCount <= ExactMaxSize) =>
    /\ Len(pairs) = ActiveCount \div 2
    /\ \A a \in Actives : Occ(a) = 1

\* the last round has returned for a roster of at least 4 active
\* participants whose every pair is already in the history of the earlier
\* rounds
C20_Witness ==
  /\ Done
  /\ ActiveCount % 2 = 0 /\ ActiveCount >= 4
  /\ RoundsDone = MaxRounds - 1
  /\ Saturated
  /\ Len(pairs) = ActiveCount \div 2

\* a later round has returned for the largest roster, whose history is not
\* yet saturated
C20_WitnessLarge ==
  /\ Done
  /\ ActiveCount = ExactMaxSize
  /\ RoundsDone >= 2
  /\ RepeatedPairs = {}
  /\ Len(pairs) = ExactMaxSize \div 2

--------------------------------------------------------------------------
(* Round numbers                                                           *)

\* the highest round number in the texts of LabelTexts and HeaderTexts
HighestStartRound == 11

\* the round number that a text carries for the base R.C, read off by hand
\* for the texts of LabelTexts (the number of the leftmost label, none when
\* the text holds no label of this base), and n for the text "R.C #n"
ExpectedRound(text) ==
  CASE text = <<"R", ".", "C", " ", "#", "1">> -> 1
    [] text = <<"R", ".", "C", " ", "#", "7">> -> 7
    [] text = <<"r", ".", "c", "#", "3">> -> 3
    [] text = <<"R", ".", "C", " ", " ", "#", "1", "0">> -> 10
    [] text = <<"o", "l", "d", " ", "R", ".", "C", " ", "#", "5", "b">> -> 5
    [] text = <<"R", ".", "C", " ", "#", "2", " ", "R", ".", "C", " ", "#", "6">> -> 2
    [] text \in {<<>>, <<"R", "x", "C", " ", "#", "9">>, <<"T", ".", "C", " ", "#", "8">>, <<"R", ".", "C", " ", "#", "x">>} -> NoMatch
    [] OTHER ->
         LET ns == {n \in 0..(HighestStartRound + MaxRuns + 1) :
                      text = <<"R", ".", "C", " ", "#">> \o ToDigits(n)}
         IN IF ns = {} THEN NoMatch ELSE CHOOSE n \in ns : TRUE

\* the round numbers carried by the rows of a table, row 0 excluded
RoundsIn(table) ==
  {ExpectedRound(table[i].text) : i \in 2..Len(table)} \ {NoMatch}

HighestRound(table) ==
  IF RoundsIn(table) = {} THEN 0
  ELSE CHOOSE m \in RoundsIn(table) : \A x \in RoundsIn(table) : x <= m

--------------------------------------------------------------------------
(* Frame of generateOptimalPairs                                           *)

\* C22: no step of generateOptimalPairs (building the graph, duplicating the
\* twice participant in the participant list, detecting communities,
\* building the matrix, matching) changes the roster or the history table.
C22_TablesUnchanged ==
  [][table1Data' = table1Data /\ table2Data' = table2Data]_vars

\* a finished call in which the twice participant was duplicated in the
\* participant list and pairs were returned from a non-empty history
C22_Witness ==
  /\ pc = "done"
  /\ twiceUser # 0
  /\ Len(employees) = Len(graph.nodes) + 1
  /\ employees[Len(employees)] = twiceUser
  /\ Len(pairs) > 0
  /\ Len(table2Data) > 1


--------------------------------------------------------------------------
(* Determinism of generateOptimalPairs                                     *)

\* the participant list of a call on the tables t1, t2 in which the twice
\* choice fell on tw (0 when nobody is duplicated)
EmployeesOf(t1, t2, tw) ==
  LET g == buildConnectionGraph(t1, t2)
  IN IF tw = 0 THEN g.nodes ELSE Append(g.nodes, tw)

\* the pair list of a call on the tables t1, t2 with the twice choice tw
PairsOf(t1, t2, tw) ==
  LET g == buildConnectionGraph(t1, t2)
      emps == EmployeesOf(t1, t2, tw)
  IN IF TooFew(g.nodes) THEN <<>>
     ELSE hungarianMatching(emps,
            buildCostMatrix(emps, g, detectCommunities(g)))

--------------------------------------------------------------------------
(* The look-ahead of the heuristic mode                                    *)

\* the used sets at the start of the iterations of the while loop
RECURSIVE UsedSets(_, _, _, _, _, _)
UsedSets(n, cm, sortedPairs, targetPairs, done, used) ==
  IF ~(done < targetPairs) THEN {}
  ELSE LET bp == FindBest(n, cm, sortedPairs, used) IN
    IF bp = 0 THEN {used}
    ELSE {used} \cup UsedSets(n, cm, sortedPairs, targetPairs, done + 1,
                              used \cup {sortedPairs[bp].i, sortedPairs[bp].j})

\* committing the pair leaves a participant who has partners among the
\* remaining participants, every one of them at the penalty
StrandsSomeone(n, cm, used, pair) ==
  LET remaining == (1..n) \ (used \cup {pair.i, pair.j})
  IN \E r \in remaining :
       /\ remaining \ {r} # {}
       /\ \A q \in remaining \ {r} :
            ~(cm[IF r < q THEN r ELSE q][IF r < q THEN q ELSE r] < Penalty)

\* C24: in heuristic mode, at every iteration, a candidate pair whose
\* commitment would leave some remaining participant with none but
\* penalized partners among the remaining ones is scored with its cost plus
\* half the penalty, and the pair committed has the lowest effective score
\* of the candidates.
C24_SurchargeWhenSomeoneStranded ==
  (pc = "matrix" /\ UseGreedy(Len(employees))) =>
    LET n == Len(employees)
        sp == SortedPairs(employees, costMatrix)
    IN \A used \in UsedSets(n, costMatrix, sp, n \div 2, 0, {}) :
         LET cand == {k \in 1..Len(sp) : sp[k].i \notin used /\ sp[k].j \notin used}
             bp == FindBest(n, costMatrix, sp, used)
         IN /\ \A k \in cand :
                 StrandsSomeone(n, costMatrix, used, sp[k])
                   => EffectiveScore(n, costMatrix, used, sp[k])
                        = sp[k].cost + Surcharge
            /\ \A k \in cand :
                 EffectiveScore(n, costMatrix, used, sp[bp])
                   <= EffectiveScore(n, costMatrix, used, sp[k])


--------------------------------------------------------------------------
(* Termination of the heuristic mode                                       *)

\* the identities of a pair list, one entry per place
PairedEntries(ps) ==
  [k \in 1..(2 * Len(ps)) |-> ps[(k + 1) \div 2][2 - (k % 2)]]

\* C25: on a list of n > 12 distinct identities and any matrix of costs,
\* greedyWithLookahead runs floor(n/2) iterations of its loop and returns
\* floor(n/2) pairs in which no participant occurs twice.
C25_GreedyCompletes ==
  (pc = "done" /\ UseGreedy(Len(employees))
     /\ \A i, j \in 1..Len(employees) : i # j => employees[i] # employees[j]) =>
    LET n == Len(employees)
        sp == SortedPairs(employees, costMatrix)
        e == PairedEntries(pairs)
    IN /\ Cardinality(UsedSets(n, costMatrix, sp, n \div 2, 0, {})) = n \div 2
       /\ Len(pairs) = n \div 2
       /\ \A k, l \in 1..Len(e) : k # l => e[k] # e[l]
       /\ \A k \in 1..Len(e) : e[k] \in 1..n

\* the run on 14 participants in which every pair is at the penalty, so
\* that every candidate of every iteration but the last is surcharged
C25_Witness ==
  /\ pc = "done"
  /\ Len(employees) = ExactMaxSize + 2
  /\ \A i, j \in 1..Len(employees) : costMatrix[i][j] = Penalty
  /\ Len(pairs) = 7


--------------------------------------------------------------------------
(* The two scorers                                                         *)

\* the identities named by the roster, participants or not
RosterIds == {table1Data[i].email : i \in 1..Len(table1Data)}

\* the nodes joined by an edge to both a and b
CommonNeighbours(a, b) ==
  {x \in Range(graph.nodes) : {a, x} \in EdgeKeys /\ {b, x} \in EdgeKeys}

\* C26: for two nodes of the graph the diversity score is
\* max(0, 10 + (10 - c)) with c the number of their common neighbours; it is
\* the base score 10 when either identity is not a node; it is the same in
\* both orders of its arguments and never rises when c does.
C26_DiversityScore ==
  GraphBuilt =>
    LET N == Range(graph.nodes)
        ids == RosterIds \cup N
        c == [a \in N, b \in N |-> Cardinality(CommonNeighbours(a, b))]
        score == [a \in ids, b \in ids |-> calculateDiversityScore(a, b, graph)]
        table == {<<c[a, b], score[a, b]>> : a \in N, b \in N}
    IN /\ \A a \in ids : \A b \in ids :
            /\ (a \in N /\ b \in N) =>
                 score[a, b] = (IF c[a, b] >= 20 THEN 0 ELSE 10 + (10 - c[a, b]))
            /\ (a \notin N \/ b \notin N) => score[a, b] = 10
            /\ score[a, b] = score[b, a]
       /\ \A s \in table : \A t \in table : s[1] <= t[1] => s[2] >= t[2]

\* a graph with two nodes that share 20 neighbours (score 0), two that
\* share 2 (score 18), and an identity of the roster that is not a node
C26_Witness ==
  /\ GraphBuilt
  /\ \E a, b \in Range(graph.nodes) :
       /\ a # b
       /\ Cardinality(CommonNeighbours(a, b)) = 20
       /\ calculateDiversityScore(a, b, graph) = 0
  /\ \E a, b \in Range(graph.nodes) :
       /\ Cardinality(CommonNeighbours(a, b)) = 2
       /\ calculateDiversityScore(a, b, graph) = 18
  /\ \E a \in RosterIds \ Range(graph.nodes) : \E b \in Range(graph.nodes) :
       calculateDiversityScore(a, b, graph) = 10


\* the number of edge ends at a node, a self-loop counting for two
EdgeEndsAt(a) ==
  Cardinality({k \in EdgeKeys : a \in k /\ k # {a}})
    + (IF {a} \in EdgeKeys THEN 2 ELSE 0)

\* C27: the network score is 50 when both identities have a community
\* identifier and the two identifiers differ (0 otherwise), plus 30 when
\* both are nodes and their degrees differ by more than 2; so it is always
\* one of 0, 30, 50, 80.
C27_NetworkScore ==
  CommunitiesDetected =>
    LET N == Range(graph.nodes)
        score(a, b) == calculateNetworkScore(a, b, graph, communities)
    IN \A a \in RosterIds \cup N :
         LET comp == IF a \in N THEN Component(a) ELSE {}
         IN \A b \in RosterIds \cup N :
              LET cross == a \in N /\ b \in N /\ b \notin comp
                  gap == EdgeEndsAt(a) - EdgeEndsAt(b)
                  bridge == a \in N /\ b \in N /\ (gap > 2 \/ gap < -2)
              IN /\ score(a, b) = (IF cross THEN 50 ELSE 0)
                                    + (IF bridge THEN 30 ELSE 0)
                 /\ score(a, b) \in {0, 30, 50, 80}

\* communities and degrees under which all four values occur, and an
\* identity of the roster that is not a node
C27_Witness ==
  /\ CommunitiesDetected
  /\ \A v \in {0, 30, 50, 80} : \E a, b \in Range(graph.nodes) :
       a # b /\ calculateNetworkScore(a, b, graph, communities) = v
  /\ \E a \in RosterIds \ Range(graph.nodes) : \E b \in Range(graph.nodes) :
       calculateNetworkScore(a, b, graph, communities) = 0


--------------------------------------------------------------------------
(* The penalty against the scores                                          *)

\* the profiles <<number of penalized pairs, total cost>> of the complete
\* matchings of the indices of free that leave skip of them out and join no
\* identity to itself
RECURSIVE Profiles(_, _)
Profiles(free, skip) ==
  IF Cardinality(free) <= skip THEN {<<0, 0>>}
  ELSE LET a == CHOOSE x \in free : \A y \in free : x <= y
       IN (IF skip > 0 THEN Profiles(free \ {a}, skip - 1) ELSE {})
          \cup UNION {{<<p[1] + (IF MustPenalize(a, b) THEN 1 ELSE 0),
                         p[2] + costMatrix[a][b]>>
                         : p \in Profiles(free \ {a, b}, skip)}
                      : b \in {x \in free \ {a} : employees[x] # employees[a]}}

\* the profiles of the complete matchings of the whole participant list
MatchingProfiles == Profiles(Indices, Len(employees) % 2)

\* 0.6 * 20 + 0.4 * 80 = 44 on the scale of the matrix
MaxMagnitude == WeightDiversity * 20 + WeightNetwork * 80

\* C28: every entry of a pair that must not be penalized lies between
\* -44 and 0, six such entries weigh less than one penalty, and in exact
\* mode a complete matching with fewer penalized pairs always has a
\* strictly lower total cost than one with more.
C28_PenaltyDominates ==
  MatrixBuilt =>
    /\ \A i \in Indices : \A j \in Indices :
         ~MustPenalize(i, j) =>
           costMatrix[i][j] <= 0 /\ -costMatrix[i][j] <= MaxMagnitude
    /\ MaxMagnitude = 44 * WeightDenominator
    /\ (ExactMaxSize \div 2) * MaxMagnitude < Penalty
    /\ ~HeuristicMode =>
         LET profiles == MatchingProfiles
         IN \A p \in profiles : \A q \in profiles : p[1] < q[1] => p[2] < q[2]

\* an exact-mode matrix over four participants with complete matchings of
\* no, one and two penalized pairs
C28_Witness ==
  /\ MatrixBuilt
  /\ ~HeuristicMode
  /\ Len(employees) = 4
  /\ {p[1] : p \in MatchingProfiles} = {0, 1, 2}


--------------------------------------------------------------------------
(* Exact mode and the number of penalized pairs                            *)

\* the pairs of the returned list that the matrix penalizes
PenalizedPairs ==
  {k \in 1..Len(pairs) : pairs[k][1] = pairs[k][2] \/ Met(pairs[k][1], pairs[k][2])}

\* the least number of penalized pairs of a complete matching
LeastPenalized ==
  CHOOSE m \in {p[1] : p \in MatchingProfiles} :
    \A p \in MatchingProfiles : m <= p[1]

\* C29: in exact mode, on the matrix buildCostMatrix returned, the matching
\* returned is complete and holds the least number of penalized pairs that
\* any complete matching of the list holds, although the search cuts every
\* branch whose partial sum is not below the best total found.
C29_FewestPenalized ==
  (Done /\ ~TooFew(employees) /\ ~HeuristicMode) =>
    /\ Len(pairs) = Len(employees) \div 2
    /\ Cardinality(PenalizedPairs) = LeastPenalized

\* a later round on six or more participants in which some complete
\* matchings hold penalized pairs and the returned one holds none
C29_Witness ==
  /\ Done
  /\ ~HeuristicMode
  /\ Len(employees) >= 6
  /\ RoundsDone >= 2
  /\ \E p \in MatchingProfiles : p[1] >= 2
  /\ Cardinality(PenalizedPairs) = 0
  /\ Len(pairs) = Len(employees) \div 2

\* a round in which every complete matching holds a penalized pair and the
\* returned one holds the least number
C29_WitnessForced ==
  /\ Done
  /\ ~HeuristicMode
  /\ Len(employees) >= 6
  /\ LeastPenalized >= 1
  /\ \E p \in MatchingProfiles : p[1] > LeastPenalized
  /\ Cardinality(PenalizedPairs) = LeastPenalized


--------------------------------------------------------------------------
(* Row 0 of the two tables                                                 *)

\* a table with its row 0 replaced
WithRowZero(table, row) == <<row>> \o Tail(table)

==========================================================================
